---- MODULE Spec2Model ----
(***************************************************************************)
(* smartSchedulo: a one-day, fixed-step simulation of a data hub that      *)
(* admits power-consuming jobs under a power ceiling, with a Baseline      *)
(* (FIFO) and a Smart (priority / urgency / solar / thermal) policy.       *)
(*                                                                         *)
(* Units.  The program computes in Python floats; the model is fixed-point *)
(* over integers:                                                          *)
(*   power        W            (1 kW = 1000)                               *)
(*   temperature  milli-deg C  (1 deg C = 1000)                            *)
(*   energy       W*min        (power * dt, dt in minutes; 1 kWh = 60000)  *)
(*   carbon       energy * tenths of GRID_CARBON_INTENSITY                 *)
(*   hour         ticks, TicksPerHour to the hour                          *)
(* Coefficients given as decimals in config.py are kept as integer         *)
(* numerators over CoefScale (0.15 -> 15).                                 *)
(***************************************************************************)
EXTENDS Integers, Sequences, FiniteSets, TLC

(***************************************************************************)
(* Bounds of the model.                                                    *)
(***************************************************************************)
\* longest job list enumerated exhaustively for a simulated day
MaxJobs == 2
\* longest job list enumerated exhaustively for direct schedule calls
MaxSchedJobs == 2
\* number of high-priority blockers in the FleetJobs scenario
FleetSize == 43
\* direct Metrics calls: the energy (W*min) on record up to which
\* add_energy and add_cooling are called
MaxCallEnergy == 100000
\* direct Job-API calls: the hours handed to start/run_step/deadline_missed
\* are 0 .. MaxCallHour (whole hours)
MaxCallHour == 3

(***************************************************************************)
(* config.py                                                               *)
(***************************************************************************)
SIMULATION_START_HOUR == 0
SIMULATION_END_HOUR == 24
TIME_STEP_MINUTES == 10
\* W
MAX_DATA_HUB_POWER == 10000
\* W
BASELINE_BACKGROUND_LOAD == 3000
\* milli-deg C
THERMAL_THRESHOLD == 32000
\* numerators over CoefScale
HEAT_ACCUMULATION == 15
THERMAL_DISSIPATION == 5
COOLING_EFFICIENCY == 60
\* milli-deg C
TEMP_THRESHOLD == 25000
\* numerator over CoefScale
COOLING_FACTOR == 50
COOLING_COP == 3
\* tenths of kg CO2 per kWh
GRID_CARBON_INTENSITY == 7
\* energy units (2.0 kWh)
DEADLINE_PENALTY_KWH == 120000
\* currency units per kWh, per kWh, per kg CO2
GRID_PRICE == 6
COOLING_PRICE == 6
CARBON_PRICE == 2
\* cooling_model.py, numerator over CoefScale
LOAD_COOLING_FACTOR == 5
\* scheduler.py: literal 1.0 kW in the medium-priority solar gate, W
MIN_SOLAR_FOR_MEDIUM == 1000
\* scheduler.py: literal 2.0 kW in the solar bonus, W
GOOD_SOLAR == 2000
\* simulation_runner.py: upper clamp of the hub temperature, milli-deg C
MAX_HUB_TEMP == 100000
\* simulation_runner.py: lower clamp is ambient minus this, milli-deg C
AMBIENT_MARGIN == 5000

CoefScale == 100
TicksPerHour == 600
TicksPerMinute == TicksPerHour \div 60
\* Python None for deadline_hour and start_hour
None == -1

Max(a, b) == IF a >= b THEN a ELSE b
Min(a, b) == IF a <= b THEN a ELSE b

(***************************************************************************)
(* time_engine.py                                                          *)
(***************************************************************************)
get_num_steps ==
    ((SIMULATION_END_HOUR - SIMULATION_START_HOUR) * 60) \div TIME_STEP_MINUTES

(***************************************************************************)
(* The clock of run_simulation is a float that starts at                   *)
(* SIMULATION_START_HOUR and is advanced by current_hour += 10/60.0.  The  *)
(* sum is not exact: after k additions it differs from the binary64 value  *)
(* of k/6, the float that k * 10 / 60.0 yields, by up to a few ulps.       *)
(* HourDrift[k+1] is the sign of that difference (computed with binary64   *)
(* arithmetic); it decides every comparison of the clock with a whole-hour *)
(* deadline, with SIMULATION_END_HOUR and with the time points of          *)
(* time_engine.py.  The model's clock is k/6 hour in ticks plus that sign. *)
(***************************************************************************)
HourDrift ==
    << 0, 0, 0, 0, 0, -1, -1, -1, 0, 0, 0, 1,
       0, 0, -1, -1, -1, -1, -1, -1, -1, -1, -1, -1,
       -1, -1, -1, -1, -1, 0, 0, 0, 1, 1, 1, 1,
       1, 1, 1, 1, 1, 1, 1, 1, 1, 1, 1, 1,
       1, 1, 1, 1, 1, 1, 1, 1, 0, 0, 0, -1,
       -1, -1, -1, -1, -1, -1, -1, -1, -1, -1, -1, -1,
       -1, -1, -1, -1, -1, -1, -1, -1, -1, -1, -1, -1,
       -1, -1, -1, -1, -1, -1, -1, -1, -1, -1, -1, -1,
       -1, -1, -1, -1, -1, -1, -1, -1, -1, -1, -1, -1,
       -1, -1, -1, -1, -1, -1, -1, -1, 0, 0, 0, 1,
       1, 1, 1, 1, 1, 1, 1, 1, 1, 1, 1, 1,
       1, 1, 1, 1, 1, 1, 1, 1, 1, 1, 1, 1,
       1 >>
AmbientTable ==
    << 27072, 26904, 26750, 26609, 26482, 26370, 26273, 26190, 26122, 26068, 26030, 26008,
       26000, 26008, 26030, 26068, 26122, 26190, 26273, 26370, 26482, 26609, 26750, 26904,
       27072, 27253, 27447, 27653, 27872, 28102, 28343, 28595, 28858, 29130, 29411, 29702,
       30000, 30306, 30619, 30939, 31264, 31594, 31929, 32268, 32611, 32956, 33303, 33651,
       34000, 34349, 34697, 35044, 35389, 35732, 36071, 36406, 36736, 37061, 37381, 37694,
       38000, 38298, 38589, 38870, 39142, 39405, 39657, 39898, 40128, 40347, 40553, 40747,
       40928, 41096, 41250, 41391, 41518, 41630, 41727, 41810, 41878, 41932, 41970, 41992,
       42000, 41992, 41970, 41932, 41878, 41810, 41727, 41630, 41518, 41391, 41250, 41096,
       40928, 40747, 40553, 40347, 40128, 39898, 39657, 39405, 39142, 38870, 38589, 38298,
       38000, 37694, 37381, 37061, 36736, 36406, 36071, 35732, 35389, 35044, 34697, 34349,
       34000, 33651, 33303, 32956, 32611, 32268, 31929, 31594, 31264, 30939, 30619, 30306,
       30000, 29702, 29411, 29130, 28858, 28595, 28343, 28102, 27872, 27653, 27447, 27253 >>
SolarTable ==
    << 0, 0, 0, 0, 0, 0, 0, 0, 0, 0, 0, 0,
       0, 0, 0, 0, 0, 0, 0, 0, 0, 0, 0, 0,
       0, 0, 0, 0, 0, 0, 0, 0, 0, 0, 0, 0,
       0, 297, 593, 888, 1181, 1472, 1760, 2045, 2326, 2602, 2874, 3140,
       3400, 3654, 3900, 4140, 4371, 4594, 4808, 5013, 5209, 5395, 5570, 5735,
       5889, 6032, 6163, 6282, 6390, 6485, 6568, 6639, 6697, 6742, 6774, 6794,
       6800, 6794, 6774, 6742, 6697, 6639, 6568, 6485, 6390, 6282, 6163, 6032,
       5889, 5735, 5570, 5395, 5209, 5013, 4808, 4594, 4371, 4140, 3900, 3654,
       3400, 3140, 2874, 2602, 2326, 2045, 1760, 1472, 1181, 888, 593, 297,
       0, 0, 0, 0, 0, 0, 0, 0, 0, 0, 0, 0,
       0, 0, 0, 0, 0, 0, 0, 0, 0, 0, 0, 0,
       0, 0, 0, 0, 0, 0, 0, 0, 0, 0, 0, 0 >>

\* the float clock after k additions of dt_hours, in ticks
HourAfter(k) ==
    SIMULATION_START_HOUR * TicksPerHour
        + k * TIME_STEP_MINUTES * TicksPerMinute + HourDrift[k + 1]

\* the number of additions that produced a clock value
StepOf(hour) ==
    (hour - SIMULATION_START_HOUR * TicksPerHour + 1)
        \div (TIME_STEP_MINUTES * TicksPerMinute)

\* generate_time_steps(): t_min / 60.0 is the correctly rounded k/6
generate_time_steps ==
    [k \in 1..get_num_steps |->
        SIMULATION_START_HOUR * TicksPerHour
            + (k - 1) * TIME_STEP_MINUTES * TicksPerMinute]

(***************************************************************************)
(* temperature_model.py, solar_model.py: the two curves sampled at the     *)
(* clock values of the day, rounded to the model's resolution.             *)
(***************************************************************************)
ambient_temperature(hour) == AmbientTable[StepOf(hour) + 1]

solar_power(hour) == SolarTable[StepOf(hour) + 1]

(***************************************************************************)
(* job.py                                                                  *)
(***************************************************************************)
PRIORITIES == {"high", "medium", "low"}

\* Job.__init__ for a valid (lower-case) priority label
Job(power_kw, duration_min, priority, deadline_hour) ==
    [power_kw   |-> power_kw,
     duration   |-> duration_min,
     remaining  |-> duration_min,
     priority   |-> priority,
     deadline   |-> deadline_hour,
     status     |-> "WAITING",
     penalized  |-> FALSE,
     start_hour |-> None]

\* Priority labels as handed to Job.__init__ are strings of characters;
\* the letters and their two cases
Lowercase ==
    << "a", "b", "c", "d", "e", "f", "g", "h", "i", "j", "k", "l", "m",
       "n", "o", "p", "q", "r", "s", "t", "u", "v", "w", "x", "y", "z" >>
Uppercase ==
    << "A", "B", "C", "D", "E", "F", "G", "H", "I", "J", "K", "L", "M",
       "N", "O", "P", "Q", "R", "S", "T", "U", "V", "W", "X", "Y", "Z" >>

\* the characters of the three valid labels, ['high', 'medium', 'low']
Chars ==
    [high   |-> << "h", "i", "g", "h" >>,
     medium |-> << "m", "e", "d", "i", "u", "m" >>,
     low    |-> << "l", "o", "w" >>]

LowerChar(c) ==
    IF \E k \in 1..Len(Uppercase) : Uppercase[k] = c
    THEN Lowercase[CHOOSE k \in 1..Len(Uppercase) : Uppercase[k] = c]
    ELSE c

UpperChar(c) ==
    IF \E k \in 1..Len(Lowercase) : Lowercase[k] = c
    THEN Uppercase[CHOOSE k \in 1..Len(Lowercase) : Lowercase[k] = c]
    ELSE c

\* mutant: the label is kept as given
lower_AsGiven(s) == s

\* str.lower()
lower(s) == [k \in 1..Len(s) |-> LowerChar(s[k])]

\* Job.__init__ raises ValueError: the normalized label is not in the list
Job_init_raises(priority) ==
    \A p \in PRIORITIES : Chars[p] # lower(priority)

\* Job.__init__ for any label that is accepted
Job_init(power_kw, duration_min, priority, deadline_hour) ==
    Job(power_kw, duration_min,
        CHOOSE p \in PRIORITIES : Chars[p] = lower(priority),
        deadline_hour)

is_waiting(job) == job.status = "WAITING"
is_running(job) == job.status = "RUNNING"
is_done(job) == job.status = "DONE"

\* mutant: the start time is never recorded
RecordStart_Never(start_hour, current_hour) == start_hour

\* if self.start_hour is None: self.start_hour = current_hour
RecordStart(start_hour, current_hour) ==
    IF start_hour = None THEN current_hour ELSE start_hour

\* mutant: the status is set to RUNNING whatever it was
start_Unguarded(job, current_hour) ==
    [job EXCEPT !.status = "RUNNING",
                !.start_hour = RecordStart(@, current_hour)]

\* Job.start
start(job, current_hour) ==
    IF job.status = "WAITING"
    THEN [job EXCEPT !.status = "RUNNING",
                     !.start_hour = RecordStart(@, current_hour)]
    ELSE job

\* mutant: the remaining time is not reset to 0 on completion
run_step_NoClamp(job, dt_min, current_hour) ==
    IF job.status = "DONE"
    THEN job
    ELSE LET started == IF job.status = "WAITING"
                        THEN start(job, current_hour)
                        ELSE job
             left == started.remaining - dt_min
         IN  IF left <= 0
             THEN [started EXCEPT !.remaining = left, !.status = "DONE"]
             ELSE [started EXCEPT !.remaining = left]

\* Job.run_step
run_step(job, dt_min, current_hour) ==
    IF job.status = "DONE"
    THEN job
    ELSE LET started == IF job.status = "WAITING"
                        THEN start(job, current_hour)
                        ELSE job
             left == started.remaining - dt_min
         IN  IF left <= 0
             THEN [started EXCEPT !.remaining = 0, !.status = "DONE"]
             ELSE [started EXCEPT !.remaining = left]

\* mutant: the deadline hour itself already counts as late
PastDeadline_Inclusive(job, current_hour) ==
    current_hour >= job.deadline * TicksPerHour

\* the comparison current_hour > self.deadline (deadline in whole hours)
PastDeadline(job, current_hour) == current_hour > job.deadline * TicksPerHour

\* mutant: the penalized flag is not consulted
deadline_missed_NoFlag(job, current_hour) ==
    IF job.deadline = None
    THEN FALSE
    ELSE PastDeadline(job, current_hour) /\ job.status # "DONE"

\* Job.deadline_missed: the value returned
deadline_missed(job, current_hour) ==
    IF job.deadline = None
    THEN FALSE
    ELSE PastDeadline(job, current_hour)
            /\ job.status # "DONE" /\ ~job.penalized

\* Job.deadline_missed: the job after the call
deadline_missed_effect(job, current_hour) ==
    IF deadline_missed(job, current_hour)
    THEN [job EXCEPT !.penalized = TRUE]
    ELSE job

\* mutant: a job is at maximum urgency only once its deadline lies behind
urgency_score_StrictlyPast(job, current_hour) ==
    IF job.deadline = None
    THEN [inf |-> FALSE, num |-> 0, den |-> 1]
    ELSE LET hours_until_deadline == job.deadline * TicksPerHour - current_hour
         IN  IF hours_until_deadline < 0
             THEN [inf |-> TRUE, num |-> 1, den |-> 1]
             ELSE [inf |-> FALSE,
                   num |-> job.remaining * TicksPerMinute,
                   den |-> hours_until_deadline]

\* Job.urgency_score.  The score is 0, +infinity, or the positive rational
\* (remaining / 60) / (deadline - current_hour) = num / den with
\* num = remaining * TicksPerMinute and den = the ticks left.
urgency_score(job, current_hour) ==
    IF job.deadline = None
    THEN [inf |-> FALSE, num |-> 0, den |-> 1]
    ELSE LET hours_until_deadline == job.deadline * TicksPerHour - current_hour
         IN  IF hours_until_deadline <= 0
             THEN [inf |-> TRUE, num |-> 1, den |-> 1]
             ELSE [inf |-> FALSE,
                   num |-> job.remaining * TicksPerMinute,
                   den |-> hours_until_deadline]

\* u > v for two scores
ScoreGreater(u, v) ==
    IF u.inf THEN ~v.inf
    ELSE IF v.inf THEN FALSE
    ELSE u.num * v.den > v.num * u.den

(***************************************************************************)
(* scheduler.py: SmartScheduler._prioritize_jobs                           *)
(***************************************************************************)
priority_level(job) ==
    CASE job.priority = "high" -> 0
      [] job.priority = "medium" -> 1
      [] job.priority = "low" -> 2
      [] OTHER -> 3

\* mutant: the bonus goes to the jobs that take up all the solar power
solar_bonus_LargeJobs(job, solar_available_kw) ==
    IF job.power_kw >= solar_available_kw /\ solar_available_kw > GOOD_SOLAR
    THEN -1
    ELSE 0

\* solar_bonus = -1 for a medium job when solar_available_kw > 2.0, else 0
solar_bonus(job, solar_available_kw) ==
    IF job.priority = "medium" /\ solar_available_kw > GOOD_SOLAR
    THEN -1
    ELSE 0

\* mutant: the urgency is not negated, so the less urgent job sorts first
KeyLess_UrgencyAscending(a, b, current_hour, solar_available_kw) ==
    LET ua == urgency_score(a, current_hour)
        ub == urgency_score(b, current_hour)
        sa == solar_bonus(a, solar_available_kw)
        sb == solar_bonus(b, solar_available_kw)
    IN  IF priority_level(a) # priority_level(b)
        THEN priority_level(a) < priority_level(b)
        ELSE IF ScoreGreater(ua, ub) \/ ScoreGreater(ub, ua)
        THEN ScoreGreater(ub, ua)
        ELSE IF sa # sb
        THEN sa < sb
        ELSE a.power_kw < b.power_kw

\* priority_key(a) < priority_key(b), Python's lexicographic tuple order on
\* (priority_level, -urgency, solar_bonus, power_kw)
KeyLess(a, b, current_hour, solar_available_kw) ==
    LET ua == urgency_score(a, current_hour)
        ub == urgency_score(b, current_hour)
        sa == solar_bonus(a, solar_available_kw)
        sb == solar_bonus(b, solar_available_kw)
    IN  IF priority_level(a) # priority_level(b)
        THEN priority_level(a) < priority_level(b)
        ELSE IF ScoreGreater(ua, ub) \/ ScoreGreater(ub, ua)
        THEN ScoreGreater(ua, ub)
        ELSE IF sa # sb
        THEN sa < sb
        ELSE a.power_kw < b.power_kw

\* sorted(): stable, so an element goes after every element whose key is
\* not greater than its own.  The lists are lists of indices into js.
RECURSIVE InsertByKey(_, _, _, _, _)
InsertByKey(js, sorted, i, current_hour, solar_available_kw) ==
    IF sorted = << >>
    THEN << i >>
    ELSE IF KeyLess(js[i], js[Head(sorted)], current_hour, solar_available_kw)
         THEN << i >> \o sorted
         ELSE << Head(sorted) >>
                 \o InsertByKey(js, Tail(sorted), i, current_hour,
                                solar_available_kw)

RECURSIVE SortByKey(_, _, _, _)
SortByKey(js, idx, current_hour, solar_available_kw) ==
    IF idx = << >>
    THEN << >>
    ELSE InsertByKey(js,
                     SortByKey(js, SubSeq(idx, 1, Len(idx) - 1),
                               current_hour, solar_available_kw),
                     idx[Len(idx)], current_hour, solar_available_kw)

\* [j for j in self.jobs if j.is_waiting()], as indices
RECURSIVE WaitingFrom(_, _)
WaitingFrom(js, i) ==
    IF i > Len(js)
    THEN << >>
    ELSE IF is_waiting(js[i])
         THEN << i >> \o WaitingFrom(js, i + 1)
         ELSE WaitingFrom(js, i + 1)

waiting_jobs(js) == WaitingFrom(js, 1)

_prioritize_jobs(js, idx, current_hour, solar_available_kw) ==
    SortByKey(js, idx, current_hour, solar_available_kw)

Range(s) == {s[k] : k \in 1..Len(s)}

RECURSIVE SumPower_Background(_, _)
\* mutant: the sum starts from the background load
SumPower_Background(js, idx) ==
    IF idx = << >>
    THEN BASELINE_BACKGROUND_LOAD
    ELSE js[Head(idx)].power_kw + SumPower_Background(js, Tail(idx))

RECURSIVE SumPower(_, _)
\* sum(job.power_kw for job in running_jobs)
SumPower(js, idx) ==
    IF idx = << >> THEN 0 ELSE js[Head(idx)].power_kw + SumPower(js, Tail(idx))

\* mutant: the test looks at the power already admitted only
FitsCeiling_BeforeAdding(total_power_used, job) ==
    total_power_used <= MAX_DATA_HUB_POWER

\* the capacity test of both policies
FitsCeiling(total_power_used, job) ==
    total_power_used + job.power_kw <= MAX_DATA_HUB_POWER

\* mutant: every job is started, admitted or not
StartAll_Everyone(js, admitted, current_hour) ==
    [i \in 1..Len(js) |-> start(js[i], current_hour)]

\* job.start(current_hour) for every admitted job
StartAll(js, admitted, current_hour) ==
    [i \in 1..Len(js) |->
        IF i \in Range(admitted) THEN start(js[i], current_hour) ELSE js[i]]

(***************************************************************************)
(* baseline_scheduler.py: BaselineScheduler.schedule                       *)
(***************************************************************************)
\* total_power_used = BASELINE_BACKGROUND_LOAD
BaselineInitialPower == BASELINE_BACKGROUND_LOAD

RECURSIVE BaselineLoop_NoBreak(_, _, _, _)
\* mutant: a misfit is skipped (continue) instead of ending the loop
BaselineLoop_NoBreak(js, idx, total_power_used, admitted) ==
    IF idx = << >>
    THEN admitted
    ELSE IF FitsCeiling(total_power_used, js[Head(idx)])
         THEN BaselineLoop_NoBreak(js, Tail(idx),
                                   total_power_used + js[Head(idx)].power_kw,
                                   Append(admitted, Head(idx)))
         ELSE BaselineLoop_NoBreak(js, Tail(idx), total_power_used, admitted)

RECURSIVE BaselineLoop(_, _, _, _)
\* for job in waiting_jobs: admit while it fits, break at the first misfit
BaselineLoop(js, idx, total_power_used, admitted) ==
    IF idx = << >>
    THEN admitted
    ELSE IF FitsCeiling(total_power_used, js[Head(idx)])
         THEN BaselineLoop(js, Tail(idx),
                           total_power_used + js[Head(idx)].power_kw,
                           Append(admitted, Head(idx)))
         ELSE admitted

\* mutant: the baseline policy admits nothing while the hub is too hot or
\* while there is no solar power
BaselineSchedule_Aware(js, solar, temp, hour) ==
    IF temp > THERMAL_THRESHOLD \/ solar < MIN_SOLAR_FOR_MEDIUM
    THEN << >>
    ELSE BaselineLoop(js, waiting_jobs(js), BaselineInitialPower, << >>)

\* the list returned by BaselineScheduler.schedule (solar, temp ignored)
BaselineSchedule(js, solar, temp, hour) ==
    BaselineLoop(js, waiting_jobs(js), BaselineInitialPower, << >>)

(***************************************************************************)
(* scheduler.py: SmartScheduler.schedule                                   *)
(***************************************************************************)
\* mutant: the smart policy counts the background load against the ceiling
SmartInitialPower_Background == BASELINE_BACKGROUND_LOAD

\* total_power_used = 0.0
SmartInitialPower == 0

\* mutant: the thermal constraint is never applied
ThermalGate_Off(job, current_temp) == FALSE

\* skip low-priority jobs if too hot
ThermalGate(job, current_temp) ==
    current_temp > THERMAL_THRESHOLD /\ job.priority = "low"

\* mutant: the solar constraint only holds back medium jobs at zero solar
SolarGate_ZeroOnly(job, solar_available_kw) ==
    job.priority = "medium" /\ solar_available_kw <= 0

\* skip medium-priority jobs without reasonable solar power
SolarGate(job, solar_available_kw) ==
    job.priority = "medium" /\ solar_available_kw < MIN_SOLAR_FOR_MEDIUM

RECURSIVE SmartLoop(_, _, _, _, _, _)
\* for job in sorted_jobs: gates, then the capacity test; a misfit is
\* skipped and the loop goes on
SmartLoop(js, idx, total_power_used, admitted, solar_available_kw, current_temp) ==
    IF idx = << >>
    THEN admitted
    ELSE LET job == js[Head(idx)]
         IN  IF ThermalGate(job, current_temp)
                  \/ SolarGate(job, solar_available_kw)
                  \/ ~FitsCeiling(total_power_used, job)
             THEN SmartLoop(js, Tail(idx), total_power_used, admitted,
                            solar_available_kw, current_temp)
             ELSE SmartLoop(js, Tail(idx),
                            total_power_used + job.power_kw,
                            Append(admitted, Head(idx)),
                            solar_available_kw, current_temp)

\* the list returned by SmartScheduler.schedule
SmartSchedule(js, solar_available_kw, current_temp, current_hour) ==
    SmartLoop(js,
              _prioritize_jobs(js, waiting_jobs(js), current_hour,
                               solar_available_kw),
              SmartInitialPower, << >>, solar_available_kw, current_temp)

\* scheduler.schedule(...) dispatched on the class of the scheduler
Schedule(sched, js, solar, temp, hour) ==
    IF sched = "SmartScheduler"
    THEN SmartSchedule(js, solar, temp, hour)
    ELSE BaselineSchedule(js, solar, temp, hour)

(***************************************************************************)
(* cooling_model.py                                                        *)
(***************************************************************************)
\* mutant: only the temperature is checked
cooling_raises_TempOnly(hub_temp, compute_load_kw) == hub_temp < 0

\* the two input checks that raise ValueError
cooling_raises(hub_temp, compute_load_kw) ==
    hub_temp < 0 \/ compute_load_kw < 0

\* mutant: the requirement is the product of the temperature excess (deg C)
\* and the load, not the sum of a share of each
cooling_power_kw_Product(hub_temp, compute_load_kw) ==
    IF hub_temp <= TEMP_THRESHOLD
    THEN 0
    ELSE LET excess_temp == hub_temp - TEMP_THRESHOLD
             cooling_requirement ==
                 ((COOLING_FACTOR * excess_temp) \div 1000)
                     * compute_load_kw
         IN  Max(0, cooling_requirement \div (CoefScale * COOLING_COP))

\* cooling_power_kw for valid inputs, W
cooling_power_kw(hub_temp, compute_load_kw) ==
    IF hub_temp <= TEMP_THRESHOLD
    THEN 0
    ELSE LET excess_temp == hub_temp - TEMP_THRESHOLD
             cooling_requirement ==
                 COOLING_FACTOR * excess_temp
                     + LOAD_COOLING_FACTOR * compute_load_kw
         IN  Max(0, cooling_requirement \div (CoefScale * COOLING_COP))

(***************************************************************************)
(* metrics.py                                                              *)
(***************************************************************************)
\* Metrics.__init__
NewMetrics ==
    [grid_energy          |-> 0,
     solar_energy         |-> 0,
     cooling_energy       |-> 0,
     carbon_kg            |-> 0,
     deadline_violations  |-> 0,
     deadline_penalty_kwh |-> 0]

\* mutant: the carbon of an energy is not scaled by the grid's intensity
Emitted_Unscaled(energy) == energy

\* energy * GRID_CARBON_INTENSITY, the carbon of an energy drawn from the grid
Emitted(energy) == energy * GRID_CARBON_INTENSITY

\* mutant: the whole load is booked as grid energy
add_energy_GridFull(m, load_kw, solar_kw, dt) ==
    LET used_solar == Min(load_kw, solar_kw)
    IN  [m EXCEPT !.solar_energy = @ + used_solar * dt,
                  !.grid_energy = @ + load_kw * dt,
                  !.carbon_kg = @ + load_kw * dt * GRID_CARBON_INTENSITY]

\* Metrics.add_energy; dt in minutes
add_energy(m, load_kw, solar_kw, dt) ==
    LET used_solar == Min(load_kw, solar_kw)
        grid_power == load_kw - used_solar
    IN  [m EXCEPT !.solar_energy = @ + used_solar * dt,
                  !.grid_energy = @ + grid_power * dt,
                  !.carbon_kg = @ + Emitted(grid_power * dt)]

\* mutant: the cooling energy is taken off the grid energy of the compute
add_cooling_OffGrid(m, cooling_kw, dt) ==
    LET cooling_energy == cooling_kw * dt
    IN  [m EXCEPT !.cooling_energy = @ + cooling_energy,
                  !.grid_energy = @ - cooling_energy,
                  !.carbon_kg = @ + cooling_energy * GRID_CARBON_INTENSITY]

\* Metrics.add_cooling
add_cooling(m, cooling_kw, dt) ==
    LET cooling_energy == cooling_kw * dt
    IN  [m EXCEPT !.cooling_energy = @ + cooling_energy,
                  !.carbon_kg = @ + Emitted(cooling_energy)]

\* mutant: the share is taken of all the energy, cooling included
solar_percentage_OfTotal(m) ==
    LET total == m.solar_energy + m.grid_energy + m.cooling_energy
    IN  IF total = 0
        THEN [num |-> 0, den |-> 1]
        ELSE [num |-> m.solar_energy * 100, den |-> total]

\* Metrics.solar_percentage, as the fraction num / den
solar_percentage(m) ==
    LET compute_total == m.solar_energy + m.grid_energy
    IN  IF compute_total = 0
        THEN [num |-> 0, den |-> 1]
        ELSE [num |-> m.solar_energy * 100, den |-> compute_total]

\* mutant: the violation is counted, the energy penalty is not added
add_deadline_penalty_CountOnly(m) ==
    [m EXCEPT !.deadline_violations = @ + 1]

\* Metrics.add_deadline_penalty
add_deadline_penalty(m) ==
    [m EXCEPT !.deadline_violations = @ + 1,
              !.deadline_penalty_kwh = @ + DEADLINE_PENALTY_KWH]

\* GRID_CARBON_INTENSITY is kept in tenths, so carbon_kg is in tenths too
CarbonScale == 10

\* energy units (W*min) to the kWh
EnergyPerKWh == 60 * 1000

\* cost units to the currency unit
CostScale == CarbonScale * EnergyPerKWh

\* Metrics.grid_cost, cooling_cost, carbon_cost, penalty_cost and
\* total_cost, in cost units
grid_cost(m) == m.grid_energy * GRID_PRICE * CarbonScale
cooling_cost(m) == m.cooling_energy * COOLING_PRICE * CarbonScale
carbon_cost(m) == m.carbon_kg * CARBON_PRICE
penalty_cost(m) == m.deadline_penalty_kwh * GRID_PRICE * CarbonScale
total_cost(m) ==
    grid_cost(m) + cooling_cost(m) + carbon_cost(m) + penalty_cost(m)

\* n calls of add_deadline_penalty
RECURSIVE add_deadline_penalties(_, _)
add_deadline_penalties(m, n) ==
    IF n = 0 THEN m ELSE add_deadline_penalties(add_deadline_penalty(m), n - 1)

(***************************************************************************)
(* State.                                                                  *)
(*   scheduler, use_smart_features  the arguments of run_simulation        *)
(*   jobs            scheduler.jobs, in registration order                 *)
(*   pc              "loop" inside run_simulation's while loop, "returned" *)
(*                   after it, "raised" if cooling_power_kw raised, "api"  *)
(*                   when the objects are driven by direct calls           *)
(*   current_hour, current_temp, metrics and the five logs: the locals of  *)
(*                   run_simulation that live across iterations            *)
(*   running_jobs    the list last returned by scheduler.schedule          *)
(*   locals          the per-iteration locals of the last iteration        *)
(*   ret             the last direct call of a Job method and its result   *)
(*   missed          per job, how many deadline_missed calls returned True *)
(*   smart_jobs      the job list registered with the smart scheduler      *)
(*                   while the baseline scheduler is the one being run     *)
(*                   (experiment_runner.py), a list of references          *)
(*   base_m          the Metrics the baseline run returned                 *)
(***************************************************************************)
VARIABLES scheduler, use_smart_features, jobs, pc, current_hour,
          current_temp, metrics, time_log, grid_log, solar_log, cooling_log,
          temp_log, running_jobs, locals, ret, missed, smart_jobs, base_m

vars == << scheduler, use_smart_features, jobs, pc, current_hour,
           current_temp, metrics, time_log, grid_log, solar_log, cooling_log,
           temp_log, running_jobs, locals, ret, missed, smart_jobs,
           base_m >>

simVars == << pc, current_hour, current_temp, metrics, time_log, grid_log,
              solar_log, cooling_log, temp_log >>

expVars == << smart_jobs, base_m >>

SCHEDULERS == {"BaselineScheduler", "SmartScheduler"}

NoLocals ==
    [hour |-> None, ambient_temp |-> 0, solar_available |-> 0,
     sched_solar |-> 0, sched_temp |-> 0, compute_power |-> 0,
     solar_used |-> 0, grid_power |-> 0, cooling_power |-> 0]

NoRet == [op |-> "none", hour |-> None, dt |-> 0, value |-> FALSE]

(***************************************************************************)
(* Job lists.                                                              *)
(***************************************************************************)
\* jobs registered for a simulated day
JobCatalogue ==
    {Job(9000, 20, "high", 1),
     Job(2000, 10, "medium", None),
     Job(5000, 30, "low", 6),
     Job(4000, 10, "high", None),
     Job(5000, 20, "medium", 12),
     Job(2000, 10, "low", 1),
     Job(3000, 10, "medium", 2)}

ListsOver(S, n) == UNION {[1..k -> S] : k \in 0..n}

\* the spec's example: A(2 kW), B(5 kW), C(4 kW)
ExampleJobs ==
    << Job(2000, 60, "low", None),
       Job(5000, 60, "high", 10),
       Job(4000, 60, "medium", None) >>

\* diagnostic_test.py
DiagnosticJobs ==
    << Job(3500, 120, "high", 18),
       Job(2000, 60, "medium", 20),
       Job(1200, 90, "low", 23) >>

\* solar_test.py
SolarTestJobs ==
    << Job(2500, 180, "medium", 14),
       Job(3000, 120, "medium", 16),
       Job(1500, 90, "low", 20),
       Job(2000, 60, "high", 12) >>

\* n high-priority jobs that fill the ceiling one at a time, then one
\* low-priority job that does not fit next to any of them
FleetJobs(n) ==
    [k \in 1..(n + 1) |->
        IF k <= n THEN Job(9000, 10, "high", None)
                  ELSE Job(2000, 10, "low", None)]

SimJobLists ==
    ListsOver(JobCatalogue, MaxJobs)
        \cup {ExampleJobs, DiagnosticJobs, SolarTestJobs, FleetJobs(FleetSize)}

(***************************************************************************)
(* simulation_runner.py: run_simulation                                    *)
(***************************************************************************)
Init ==
    /\ scheduler \in SCHEDULERS
    /\ use_smart_features \in BOOLEAN
    /\ jobs \in SimJobLists
    /\ pc = "loop"
    /\ current_hour = HourAfter(0)
    /\ current_temp = ambient_temperature(SIMULATION_START_HOUR * TicksPerHour)
    /\ metrics = NewMetrics
    /\ time_log = << >>
    /\ grid_log = << >>
    /\ solar_log = << >>
    /\ cooling_log = << >>
    /\ temp_log = << >>
    /\ running_jobs = << >>
    /\ locals = NoLocals
    /\ ret = NoRet
    /\ missed = [i \in 1..Len(jobs) |-> 0]
    /\ smart_jobs = << >>
    /\ base_m = NewMetrics

\* while current_hour < SIMULATION_END_HOUR
LoopCondition == current_hour < SIMULATION_END_HOUR * TicksPerHour

\* mutant: the jobs the policy returned are not run in this iteration
Execute_Skipped(job, hour) == job

\* for job in running_jobs: job.run_step(TIME_STEP_MINUTES, current_hour),
\* which comes after the scheduler's decision in the loop body
Execute(job, hour) == run_step(job, TIME_STEP_MINUTES, hour)

\* mutant: every job is started and run, returned by the policy or not
RunAdmitted_Everyone(job, admitted, hour) ==
    run_step(start(job, hour), TIME_STEP_MINUTES, hour)

\* what the iteration does to one job: job.start in schedule and job.run_step
\* in the loop body if the job was returned by the policy, nothing otherwise
RunAdmitted(job, admitted, hour) ==
    IF admitted
    THEN Execute(start(job, hour), hour)
    ELSE job

\* mutant: only the jobs run in this step are checked for their deadline
CheckDeadline_RunOnly(job, admitted, hour) ==
    IF admitted THEN deadline_missed(job, hour) ELSE FALSE

\* for job in scheduler.jobs: job.deadline_missed(current_hour), whether the
\* job was run in this step or not
CheckDeadline(job, admitted, hour) == deadline_missed(job, hour)

\* mutant: the updated temperature is not clamped
NextTemp_NoClamp(temp, ambient_temp, compute_power, cooling_power) ==
    temp + (HEAT_ACCUMULATION * compute_power
               - COOLING_EFFICIENCY * cooling_power
               - THERMAL_DISSIPATION * (temp - ambient_temp)) \div CoefScale

\* the thermal state update and its clamp
NextTemp(temp, ambient_temp, compute_power, cooling_power) ==
    LET temp_change ==
            (HEAT_ACCUMULATION * compute_power
                - COOLING_EFFICIENCY * cooling_power
                - THERMAL_DISSIPATION * (temp - ambient_temp)) \div CoefScale
    IN  Max(ambient_temp - AMBIENT_MARGIN,
            Min(temp + temp_change, MAX_HUB_TEMP))

\* SmartScheduler.get_statistics: the 'penalized' count
penalized_count(js) ==
    Cardinality({i \in 1..Len(js) : js[i].penalized})

\* mutant: all the available solar power is booked, whatever the load
SolarUsed_Uncapped(compute_power, solar_available) == solar_available

\* solar_used = min(compute_power, solar_available)
SolarUsed(compute_power, solar_available) ==
    Min(compute_power, solar_available)

\* grid_power = compute_power - solar_used
GridPower(compute_power, solar_used) == compute_power - solar_used

\* the solar and temperature handed to scheduler.schedule
SchedSolar(smart, solar_available) == IF smart THEN solar_available ELSE 0
SchedTemp(smart, temp) == IF smart THEN temp ELSE 0

\* the locals of one iteration, given the list the policy returned
StepLocals(js, admitted, smart, hour, temp) ==
    LET solar_available == solar_power(hour)
        compute_power == SumPower(js, admitted)
        solar_used == SolarUsed(compute_power, solar_available)
    IN  [hour |-> hour,
         ambient_temp |-> ambient_temperature(hour),
         solar_available |-> solar_available,
         sched_solar |-> SchedSolar(smart, solar_available),
         sched_temp |-> SchedTemp(smart, temp),
         compute_power |-> compute_power,
         solar_used |-> solar_used,
         grid_power |-> GridPower(compute_power, solar_used),
         cooling_power |-> IF cooling_raises(temp, compute_power)
                           THEN 0
                           ELSE cooling_power_kw(temp, compute_power)]

\* metrics.add_energy(...) then metrics.add_cooling(...)
TrackEnergy(m, l) ==
    add_cooling(add_energy(m, l.compute_power, l.solar_used,
                           TIME_STEP_MINUTES),
                l.cooling_power, TIME_STEP_MINUTES)

\* one iteration of the while loop
SimStep ==
    /\ pc = "loop"
    /\ LoopCondition
    /\ running_jobs' =
           Schedule(scheduler, jobs,
                    SchedSolar(use_smart_features, solar_power(current_hour)),
                    SchedTemp(use_smart_features, current_temp),
                    current_hour)
    /\ locals' = StepLocals(jobs, running_jobs', use_smart_features,
                            current_hour, current_temp)
    /\ IF cooling_raises(current_temp, locals'.compute_power)
       THEN /\ pc' = "raised"
            /\ jobs' = StartAll(jobs, running_jobs', current_hour)
            /\ UNCHANGED << current_hour, current_temp, metrics, time_log,
                            grid_log, solar_log, cooling_log, temp_log,
                            missed >>
       ELSE /\ missed' =
                   [i \in 1..Len(jobs) |->
                       IF CheckDeadline(
                              RunAdmitted(jobs[i],
                                          i \in Range(running_jobs'),
                                          current_hour),
                              i \in Range(running_jobs'),
                              current_hour)
                       THEN missed[i] + 1
                       ELSE missed[i]]
            /\ jobs' =
                   [i \in 1..Len(jobs) |->
                       IF missed'[i] # missed[i]
                       THEN [RunAdmitted(jobs[i],
                                         i \in Range(running_jobs'),
                                         current_hour)
                                EXCEPT !.penalized = TRUE]
                       ELSE RunAdmitted(jobs[i], i \in Range(running_jobs'),
                                        current_hour)]
            /\ current_temp' =
                   NextTemp(current_temp, locals'.ambient_temp,
                            locals'.compute_power, locals'.cooling_power)
            /\ metrics' =
                   add_deadline_penalties(
                       TrackEnergy(metrics, locals'),
                       Cardinality({i \in 1..Len(jobs) :
                                       missed'[i] # missed[i]}))
            /\ time_log' = Append(time_log, current_hour)
            /\ grid_log' = Append(grid_log, locals'.grid_power)
            /\ solar_log' = Append(solar_log, locals'.solar_used)
            /\ cooling_log' = Append(cooling_log, locals'.cooling_power)
            /\ temp_log' = Append(temp_log, current_temp')
            /\ current_hour' = HourAfter(StepOf(current_hour) + 1)
            /\ pc' = "loop"
    /\ UNCHANGED << scheduler, use_smart_features, ret, expVars >>

\* the loop condition fails: return metrics and the five logs
SimReturn ==
    /\ pc = "loop"
    /\ ~LoopCondition
    /\ pc' = "returned"
    /\ UNCHANGED << scheduler, use_smart_features, jobs, current_hour,
                    current_temp, metrics, time_log, grid_log, solar_log,
                    cooling_log, temp_log, running_jobs, locals, ret, missed,
                    expVars >>

Next == SimStep \/ SimReturn

Spec == Init /\ [][Next]_vars

(***************************************************************************)
(* Direct calls of the Job methods on one job, in any order and with any   *)
(* of the hours below (job.py).                                            *)
(***************************************************************************)
\* the jobs constructed
ApiJobs ==
    {Job(2000, d, p, dl) : d \in {0, 10, 25}, p \in PRIORITIES,
                           dl \in {None, 1, 2}}

\* current_hour arguments: every half hour up to MaxCallHour
CallHours == {k * (TicksPerHour \div 2) : k \in 0..(2 * MaxCallHour)}

\* dt_min arguments
CallSteps == {0, TIME_STEP_MINUTES, 15}

InitJob ==
    /\ scheduler = "BaselineScheduler"
    /\ use_smart_features = FALSE
    /\ jobs \in {<< j >> : j \in ApiJobs}
    /\ pc = "api"
    /\ current_hour = HourAfter(0)
    /\ current_temp = ambient_temperature(SIMULATION_START_HOUR * TicksPerHour)
    /\ metrics = NewMetrics
    /\ time_log = << >>
    /\ grid_log = << >>
    /\ solar_log = << >>
    /\ cooling_log = << >>
    /\ temp_log = << >>
    /\ running_jobs = << >>
    /\ locals = NoLocals
    /\ ret = NoRet
    /\ missed = << 0 >>
    /\ smart_jobs = << >>
    /\ base_m = NewMetrics

\* job.start(h)
CallStart(h) ==
    /\ pc = "api"
    /\ jobs' = << start(jobs[1], h) >>
    /\ ret' = [op |-> "start", hour |-> h, dt |-> 0, value |-> FALSE]
    /\ UNCHANGED << scheduler, use_smart_features, simVars, running_jobs,
                    locals, missed, expVars >>

\* job.run_step(dt, h)
CallRunStep(dt, h) ==
    /\ pc = "api"
    /\ jobs' = << run_step(jobs[1], dt, h) >>
    /\ ret' = [op |-> "run_step", hour |-> h, dt |-> dt, value |-> FALSE]
    /\ UNCHANGED << scheduler, use_smart_features, simVars, running_jobs,
                    locals, missed, expVars >>

\* job.deadline_missed(h)
CallDeadlineMissed(h) ==
    /\ pc = "api"
    /\ ret' = [op |-> "deadline_missed", hour |-> h, dt |-> 0,
               value |-> deadline_missed(jobs[1], h)]
    /\ jobs' = << deadline_missed_effect(jobs[1], h) >>
    /\ missed' = << IF ret'.value THEN missed[1] + 1 ELSE missed[1] >>
    /\ UNCHANGED << scheduler, use_smart_features, simVars, running_jobs,
                    locals, expVars >>

\* job.urgency_score(h)
CallUrgencyScore(h) ==
    /\ pc = "api"
    /\ ret' = [op |-> "urgency_score", hour |-> h, dt |-> 0,
               value |-> urgency_score(jobs[1], h)]
    /\ UNCHANGED << scheduler, use_smart_features, jobs, simVars,
                    running_jobs, locals, missed, expVars >>

NextJob ==
    \/ \E h \in CallHours : CallUrgencyScore(h)
    \/ \E h \in CallHours : CallStart(h)
    \/ \E h \in CallHours, dt \in CallSteps : CallRunStep(dt, h)
    \/ \E h \in CallHours : CallDeadlineMissed(h)

SpecJob == InitJob /\ [][NextJob]_vars

(***************************************************************************)
(* Direct calls of scheduler.schedule with any of the inputs below, each   *)
(* followed or not by the run_step of the jobs it returned.                *)
(***************************************************************************)
\* jobs registered with the scheduler
SchedCatalogue ==
    {Job(2000, 10, "high", None),
     Job(9000, 60, "high", 2),
     Job(4000, 60, "medium", 2),
     Job(2000, 120, "medium", 4),
     Job(5000, 30, "low", 1),
     Job(4000, 60, "low", None)}

\* three jobs of which the two high-priority ones do not fit together,
\* while the low-priority one fits next to the larger of them
TightJobs ==
    << Job(1000, 30, "low", None),
       Job(9000, 60, "high", 2),
       Job(2000, 10, "high", None) >>

\* solar_available_kw arguments, W
SchedSolars == {0, 1500, 2500}
\* current_temp arguments, milli-deg C
SchedTemps == {30000, 33000}
\* current_hour arguments
SchedHours == {0, 3 * TicksPerHour}

InitSched ==
    /\ scheduler \in SCHEDULERS
    /\ use_smart_features = TRUE
    /\ jobs \in ListsOver(SchedCatalogue, MaxSchedJobs)
                   \cup {ExampleJobs, TightJobs}
    /\ pc = "api"
    /\ current_hour = HourAfter(0)
    /\ current_temp = ambient_temperature(SIMULATION_START_HOUR * TicksPerHour)
    /\ metrics = NewMetrics
    /\ time_log = << >>
    /\ grid_log = << >>
    /\ solar_log = << >>
    /\ cooling_log = << >>
    /\ temp_log = << >>
    /\ running_jobs = << >>
    /\ locals = NoLocals
    /\ ret = NoRet
    /\ missed = [i \in 1..Len(jobs) |-> 0]
    /\ smart_jobs = << >>
    /\ base_m = NewMetrics

\* scheduler.schedule(solar, temp, hour)
CallSchedule(solar, temp, hour) ==
    /\ pc = "api"
    /\ running_jobs' = Schedule(scheduler, jobs, solar, temp, hour)
    /\ jobs' = StartAll(jobs, running_jobs', hour)
    /\ locals' = [NoLocals EXCEPT !.hour = hour, !.sched_solar = solar,
                                  !.sched_temp = temp]
    /\ ret' = [op |-> "schedule", hour |-> hour, dt |-> 0, value |-> FALSE]
    /\ UNCHANGED << scheduler, use_smart_features, simVars, missed,
                    expVars >>

\* for job in running_jobs: job.run_step(TIME_STEP_MINUTES, hour)
CallRunReturned ==
    /\ pc = "api"
    /\ running_jobs # << >>
    /\ jobs' = [i \in 1..Len(jobs) |->
                   RunAdmitted(jobs[i], i \in Range(running_jobs),
                               locals.hour)]
    /\ running_jobs' = << >>
    /\ ret' = [op |-> "run_step", hour |-> locals.hour,
               dt |-> TIME_STEP_MINUTES, value |-> FALSE]
    /\ UNCHANGED << scheduler, use_smart_features, simVars, locals, missed,
                    expVars >>

NextSched ==
    \/ \E solar \in SchedSolars, temp \in SchedTemps, hour \in SchedHours :
           CallSchedule(solar, temp, hour)
    \/ CallRunReturned

SpecSched == InitSched /\ [][NextSched]_vars

(***************************************************************************)
(* experiment_runner.py: one experiment of run_experiments.  Both          *)
(* schedulers get a copy.deepcopy of the same job list; the baseline run   *)
(* is followed by the smart run.                                           *)
(*                                                                         *)
(* A job reference is either an object of its own (shared = 0, obj its     *)
(* state) or the same object as the i-th job of the list being run         *)
(* (shared = i).                                                           *)
(***************************************************************************)
\* mutant: the list holds the very objects of the original list
deepcopy_SameObjects(js) ==
    [i \in 1..Len(js) |-> [shared |-> i, obj |-> js[i]]]

\* copy.deepcopy(jobs): new objects in the state of the originals
deepcopy(js) ==
    [i \in 1..Len(js) |-> [shared |-> 0, obj |-> js[i]]]

\* the state of the object behind a reference
Deref(ref, run_jobs) ==
    IF ref.shared = 0 THEN ref.obj ELSE run_jobs[ref.shared]

\* smart.jobs as job states
SmartJobs == [i \in 1..Len(smart_jobs) |-> Deref(smart_jobs[i], jobs)]

\* the job lists of the experiments
ExpJobLists ==
    ListsOver(JobCatalogue, MaxJobs)
        \cup {ExampleJobs, DiagnosticJobs, SolarTestJobs}

\* base.add_job / smart.add_job of the two copies, then the start of
\* run_simulation(base, use_smart_features=False)
InitExp ==
    /\ scheduler = "BaselineScheduler"
    /\ use_smart_features = FALSE
    /\ \E js \in ExpJobLists :
           /\ jobs = [i \in 1..Len(js) |-> Deref(deepcopy(js)[i], js)]
           /\ smart_jobs = deepcopy(js)
    /\ pc = "loop"
    /\ current_hour = HourAfter(0)
    /\ current_temp = ambient_temperature(SIMULATION_START_HOUR * TicksPerHour)
    /\ metrics = NewMetrics
    /\ time_log = << >>
    /\ grid_log = << >>
    /\ solar_log = << >>
    /\ cooling_log = << >>
    /\ temp_log = << >>
    /\ running_jobs = << >>
    /\ locals = NoLocals
    /\ ret = NoRet
    /\ missed = [i \in 1..Len(jobs) |-> 0]
    /\ base_m = NewMetrics

\* base_m, *_ = run_simulation(base, ...) has returned; the start of
\* run_simulation(smart, use_smart_features=True)
StartSmartRun ==
    /\ pc = "returned"
    /\ scheduler = "BaselineScheduler"
    /\ base_m' = metrics
    /\ scheduler' = "SmartScheduler"
    /\ use_smart_features' = TRUE
    /\ jobs' = SmartJobs
    /\ smart_jobs' = << >>
    /\ pc' = "loop"
    /\ current_hour' = HourAfter(0)
    /\ current_temp' =
           ambient_temperature(SIMULATION_START_HOUR * TicksPerHour)
    /\ metrics' = NewMetrics
    /\ time_log' = << >>
    /\ grid_log' = << >>
    /\ solar_log' = << >>
    /\ cooling_log' = << >>
    /\ temp_log' = << >>
    /\ running_jobs' = << >>
    /\ locals' = NoLocals
    /\ missed' = [i \in 1..Len(smart_jobs) |-> 0]
    /\ UNCHANGED ret

NextExp == SimStep \/ SimReturn \/ StartSmartRun

SpecExp == InitExp /\ [][NextExp]_vars

(***************************************************************************)
(* Direct calls of the constructor of Job and of the functions of          *)
(* cooling_model.py and metrics.py, with any of the arguments below.  ret  *)
(* holds the name of the last call, its arguments, whether it raised and   *)
(* the value it returned.                                                  *)
(***************************************************************************)
\* every way of writing a word in upper and lower case
Casings(word) ==
    {[k \in 1..Len(word) |-> IF m[k] THEN UpperChar(word[k]) ELSE word[k]] :
        m \in [1..Len(word) -> BOOLEAN]}

\* labels that are no valid priority in any case
OtherLabels ==
    {<< >>,
     << "h", "i", "g" >>,
     << "L", "O", "W", "S" >>,
     << " ", "l", "o", "w" >>,
     << "H", "i", "g", "h", " " >>,
     << "u", "r", "g", "e", "n", "t" >>,
     << "N", "o", "r", "m", "a", "l" >>,
     << "1" >>}

\* the priority arguments of the constructor
CallLabels == UNION {Casings(Chars[p]) : p \in PRIORITIES} \cup OtherLabels

InitCalls ==
    /\ scheduler = "BaselineScheduler"
    /\ use_smart_features = FALSE
    /\ jobs = << >>
    /\ pc = "api"
    /\ current_hour = HourAfter(0)
    /\ current_temp = ambient_temperature(SIMULATION_START_HOUR * TicksPerHour)
    /\ metrics = NewMetrics
    /\ time_log = << >>
    /\ grid_log = << >>
    /\ solar_log = << >>
    /\ cooling_log = << >>
    /\ temp_log = << >>
    /\ running_jobs = << >>
    /\ locals = NoLocals
    /\ ret = NoRet
    /\ missed = << >>
    /\ smart_jobs = << >>
    /\ base_m = NewMetrics

\* Job(name, power_kw, duration_min, priority, deadline_hour)
CallJobInit(power_kw, duration_min, priority, deadline_hour) ==
    /\ pc = "api"
    /\ ret' = [op |-> "Job", priority |-> priority,
               raised |-> Job_init_raises(priority)]
    /\ jobs' = IF ret'.raised
               THEN jobs
               ELSE << Job_init(power_kw, duration_min, priority,
                                deadline_hour) >>
    /\ missed' = [i \in 1..Len(jobs') |-> 0]
    /\ UNCHANGED << scheduler, use_smart_features, simVars, running_jobs,
                    locals, expVars >>

\* hub_temp arguments, milli-deg C
CallTemps ==
    {-1000, 0, 20000, TEMP_THRESHOLD, TEMP_THRESHOLD + 1, 30000, 40000}

\* compute_load_kw arguments, W
CallLoads == {-500, 0, 2000, MAX_DATA_HUB_POWER}

\* cooling_power_kw(hub_temp, compute_load_kw)
CallCoolingPower(hub_temp, compute_load_kw) ==
    /\ pc = "api"
    /\ ret' = [op |-> "cooling_power_kw", hub_temp |-> hub_temp,
               compute_load_kw |-> compute_load_kw,
               raised |-> cooling_raises(hub_temp, compute_load_kw),
               value |-> IF cooling_raises(hub_temp, compute_load_kw)
                         THEN 0
                         ELSE cooling_power_kw(hub_temp, compute_load_kw)]
    /\ UNCHANGED << scheduler, use_smart_features, jobs, simVars,
                    running_jobs, locals, missed, expVars >>

\* load_kw and solar_kw arguments of add_energy, W
CallPowers == {0, 2000, 5000}

\* cooling_kw arguments of add_cooling, W
CallCoolings == {0, 500, 2000}

\* metrics.add_energy(load_kw, solar_kw, dt_hours), while the energy on
\* record is below MaxCallEnergy
CallAddEnergy(load_kw, solar_kw, dt) ==
    /\ pc = "api"
    /\ metrics.solar_energy + metrics.grid_energy + metrics.cooling_energy
           < MaxCallEnergy
    /\ metrics' = add_energy(metrics, load_kw, solar_kw, dt)
    /\ ret' = [op |-> "add_energy", load_kw |-> load_kw,
               solar_kw |-> solar_kw, dt |-> dt]
    /\ UNCHANGED << scheduler, use_smart_features, jobs, pc, current_hour,
                    current_temp, time_log, grid_log, solar_log, cooling_log,
                    temp_log, running_jobs, locals, missed, expVars >>

\* metrics.add_cooling(cooling_kw, dt_hours), under the same bound
CallAddCooling(cooling_kw, dt) ==
    /\ pc = "api"
    /\ metrics.solar_energy + metrics.grid_energy + metrics.cooling_energy
           < MaxCallEnergy
    /\ metrics' = add_cooling(metrics, cooling_kw, dt)
    /\ ret' = [op |-> "add_cooling", cooling_kw |-> cooling_kw, dt |-> dt]
    /\ UNCHANGED << scheduler, use_smart_features, jobs, pc, current_hour,
                    current_temp, time_log, grid_log, solar_log, cooling_log,
                    temp_log, running_jobs, locals, missed, expVars >>

\* dt_hours arguments of add_energy and add_cooling, min
CallDurations == {TIME_STEP_MINUTES, 15}

\* a Metrics object driven by direct calls, from Metrics()
NextMetrics ==
    \/ \E load_kw \in CallPowers, solar_kw \in CallPowers,
          dt \in CallDurations :
           CallAddEnergy(load_kw, solar_kw, dt)
    \/ \E cooling_kw \in CallCoolings, dt \in CallDurations :
           CallAddCooling(cooling_kw, dt)

SpecMetrics == InitCalls /\ [][NextMetrics]_vars

NextCalls ==
    \/ \E priority \in CallLabels, deadline_hour \in {None, 12} :
           CallJobInit(2000, 30, priority, deadline_hour)
    \/ \E hub_temp \in CallTemps, compute_load_kw \in CallLoads :
           CallCoolingPower(hub_temp, compute_load_kw)

SpecCalls == InitCalls /\ [][NextCalls]_vars

(***************************************************************************)
(* Properties.                                                             *)
(***************************************************************************)
RECURSIVE SumRange(_, _, _)
\* s[lo] + ... + s[hi], by halves
SumRange(s, lo, hi) ==
    IF lo > hi THEN 0
    ELSE IF lo = hi THEN s[lo]
    ELSE SumRange(s, lo, (lo + hi) \div 2)
             + SumRange(s, (lo + hi) \div 2 + 1, hi)

\* the sum of a log
SumSeq(s) == SumRange(s, 1, Len(s))

\* an iteration of the loop has been executed
Stepped == pc \in {"loop", "returned"} /\ locals.hour # None

SmartRun == scheduler = "SmartScheduler" /\ use_smart_features
BaselineRun == scheduler = "BaselineScheduler" /\ ~use_smart_features

\* C1 as stated: in every step, under either policy, the background load
\* plus the power of the jobs returned for the step is within the ceiling.
C1_Original ==
    Stepped =>
        BASELINE_BACKGROUND_LOAD + SumPower(jobs, running_jobs)
            <= MAX_DATA_HUB_POWER

\* C1 amended: in every step the power of the jobs returned for the step is
\* within the ceiling under either policy; the background load is counted
\* against the ceiling by BaselineScheduler only.
C1_PowerCeiling ==
    Stepped =>
        /\ SumPower(jobs, running_jobs) <= MAX_DATA_HUB_POWER
        /\ scheduler = "BaselineScheduler" =>
               BASELINE_BACKGROUND_LOAD + SumPower(jobs, running_jobs)
                   <= MAX_DATA_HUB_POWER

\* a Smart step that admitted more than the ceiling less the background load
C1_Witness ==
    /\ Stepped
    /\ scheduler = "SmartScheduler"
    /\ Len(running_jobs) >= 2
    /\ SumPower(jobs, running_jobs)
           > MAX_DATA_HUB_POWER - BASELINE_BACKGROUND_LOAD

\* C2 as stated: once a job is RUNNING, every later iteration of the loop
\* reduces its remaining duration by TIME_STEP_MINUTES (down to 0, where it
\* is DONE).
C2_RunningAdvances ==
    [][(pc = "loop" /\ pc' = "loop") =>
          \A i \in 1..Len(jobs) :
              jobs[i].status = "RUNNING" =>
                  /\ jobs'[i].remaining
                         = Max(jobs[i].remaining - TIME_STEP_MINUTES, 0)
                  /\ jobs'[i].remaining = 0 => jobs'[i].status = "DONE"]_vars

\* the indices of the WAITING jobs of js, in registration order
RECURSIVE EligibleFrom(_, _)
EligibleFrom(js, i) ==
    IF i > Len(js) THEN << >>
    ELSE (IF js[i].status = "WAITING" THEN << i >> ELSE << >>)
             \o EligibleFrom(js, i + 1)

\* n is the length of the longest prefix of w that fits under the ceiling
\* on top of the background load
LongestFit(js, w, n) ==
    /\ BASELINE_BACKGROUND_LOAD + SumPower(js, SubSeq(w, 1, n))
           <= MAX_DATA_HUB_POWER
    /\ n < Len(w) =>
           BASELINE_BACKGROUND_LOAD + SumPower(js, SubSeq(w, 1, n + 1))
               > MAX_DATA_HUB_POWER

\* C3: BaselineScheduler.schedule returns the longest prefix, in
\* registration order, of the WAITING jobs whose cumulative power on top of
\* the background load stays within the ceiling, whatever their priorities
\* and deadlines.
C3_LongestPrefix ==
    [][(scheduler = "BaselineScheduler" /\ ret'.op = "schedule") =>
          LET w == EligibleFrom(jobs, 1)
          IN  \E n \in 0..Len(w) :
                  /\ running_jobs' = SubSeq(w, 1, n)
                  /\ LongestFit(jobs, w, n)]_vars

\* the spec's example: powers 2, 5, 4 kW; the first two admitted, the third
\* deferred
C3_Witness ==
    /\ scheduler = "BaselineScheduler"
    /\ ret.op = "schedule"
    /\ Len(jobs) = 3
    /\ jobs[1].power_kw = 2000 /\ jobs[2].power_kw = 5000
    /\ jobs[3].power_kw = 4000
    /\ running_jobs = << 1, 2 >>
    /\ jobs[3].status = "WAITING"

\* the jobs returned for the last step include one of the given priority
Admitted(priority) ==
    \E k \in 1..Len(running_jobs) : jobs[running_jobs[k]].priority = priority

\* a WAITING job of the given priority would fit next to what was admitted
Deferred(priority) ==
    \E i \in 1..Len(jobs) :
        /\ jobs[i].priority = priority
        /\ jobs[i].status = "WAITING"
        /\ SumPower(jobs, running_jobs) + jobs[i].power_kw
               <= MAX_DATA_HUB_POWER

\* C4 as stated: in an environment-aware Smart run no low-priority job is
\* admitted in a step whose ambient temperature exceeds THERMAL_THRESHOLD.
C4_Original ==
    (Stepped /\ SmartRun /\ locals.ambient_temp > THERMAL_THRESHOLD)
        => ~Admitted("low")

\* C4 amended: in an environment-aware Smart run no low-priority job is
\* admitted in a step at whose start the hub temperature (the current_temp
\* handed to the policy) exceeds THERMAL_THRESHOLD, even when power capacity
\* is available.
C4_HubTemperatureGate ==
    (Stepped /\ SmartRun /\ locals.sched_temp > THERMAL_THRESHOLD)
        => ~Admitted("low")

\* a hot step in which a low-priority job that fits was left WAITING
C4_Witness ==
    /\ Stepped
    /\ SmartRun
    /\ locals.sched_temp > THERMAL_THRESHOLD
    /\ Deferred("low")

\* C5: in an environment-aware Smart run no medium-priority job is admitted
\* in a step whose available solar power is below 1.0 kW.
C5_SolarGate ==
    (Stepped /\ SmartRun /\ locals.solar_available < MIN_SOLAR_FOR_MEDIUM)
        => ~Admitted("medium")

\* a step with some, but too little, solar power in which a medium-priority
\* job that fits was left WAITING
C5_Witness ==
    /\ Stepped
    /\ SmartRun
    /\ locals.solar_available > 0
    /\ locals.solar_available < MIN_SOLAR_FOR_MEDIUM
    /\ Deferred("medium")

\* x may stand before y in the order C6 describes: higher priority first,
\* then the more urgent (past deadline is the most urgent), then the
\* smaller power
InClaimedOrder(x, y, hour) ==
    LET ux == urgency_score(x, hour)
        uy == urgency_score(y, hour)
    IN  \/ priority_level(x) < priority_level(y)
        \/ /\ priority_level(x) = priority_level(y)
           /\ \/ ScoreGreater(ux, uy)
              \/ /\ ~ScoreGreater(uy, ux)
                 /\ x.power_kw <= y.power_kw

C7_PowerSplit ==
    Stepped =>
        /\ locals.grid_power + locals.solar_used = locals.compute_power
        /\ locals.solar_used <= locals.solar_available
        /\ locals.grid_power >= 0
        /\ locals.solar_used >= 0
        /\ grid_log[Len(grid_log)] = locals.grid_power
        /\ solar_log[Len(solar_log)] = locals.solar_used

\* a step whose load was covered partly by solar and partly by the grid
C7_Witness ==
    /\ Stepped
    /\ locals.solar_used > 0
    /\ locals.grid_power > 0
    /\ locals.solar_used = locals.solar_available

\* C8: after a run, each of the grid, solar and cooling logs summed and
\* multiplied by the step duration equals the corresponding Metrics total.
C8_LogsMatchMetrics ==
    pc = "returned" =>
        /\ SumSeq(grid_log) * TIME_STEP_MINUTES = metrics.grid_energy
        /\ SumSeq(solar_log) * TIME_STEP_MINUTES = metrics.solar_energy
        /\ SumSeq(cooling_log) * TIME_STEP_MINUTES = metrics.cooling_energy

\* a finished run that used grid, solar and cooling energy
C8_Witness ==
    /\ pc = "returned"
    /\ metrics.grid_energy > 0
    /\ metrics.solar_energy > 0
    /\ metrics.cooling_energy > 0

\* C9: whatever start, run_step and deadline_missed calls are made,
\* deadline_missed returns True at most once for the job, and the penalized
\* flag is never reset.
C9_AtMostOnce ==
    [][/\ missed'[1] <= 1
       /\ jobs[1].penalized => jobs'[1].penalized]_vars

\* a deadline_missed call that returned False for a job that is past its
\* deadline and not DONE, because an earlier call had returned True
C9_Witness ==
    /\ pc = "api"
    /\ ret.op = "deadline_missed"
    /\ ~ret.value
    /\ missed[1] = 1
    /\ jobs[1].status # "DONE"
    /\ jobs[1].deadline # None
    /\ ret.hour > jobs[1].deadline * TicksPerHour

\* C10: deadline_missed(hour) returns True exactly when the job has a
\* deadline, hour is strictly greater than it, the job is not DONE and it has
\* not been penalized before.
C10_ReturnValue ==
    [][ret'.op = "deadline_missed" =>
          (ret'.value <=>
              /\ jobs[1].deadline # None
              /\ ret'.hour > jobs[1].deadline * TicksPerHour
              /\ jobs[1].status # "DONE"
              /\ ~jobs[1].penalized)]_vars

\* a call at exactly the deadline hour of an unfinished, unpenalized job
\* returned False
C10_Witness ==
    /\ pc = "api"
    /\ ret.op = "deadline_missed"
    /\ ~ret.value
    /\ jobs[1].deadline # None
    /\ ret.hour = jobs[1].deadline * TicksPerHour
    /\ jobs[1].status # "DONE"
    /\ ~jobs[1].penalized

\* C11: over any sequence of run_step calls with a non-negative step (and
\* start and deadline_missed calls in between), remaining never increases,
\* is never negative, and is exactly 0 whenever the status is DONE.
C11_RemainingDecreases ==
    [][/\ jobs'[1].remaining <= jobs[1].remaining
       /\ jobs'[1].remaining >= 0
       /\ jobs'[1].status = "DONE" => jobs'[1].remaining = 0]_vars

\* a job of 10 minutes that is DONE with remaining 0 after a run_step of 15
\* minutes
C11_Witness ==
    /\ pc = "api"
    /\ ret.op = "run_step"
    /\ ret.dt > jobs[1].duration
    /\ jobs[1].duration > 0
    /\ jobs[1].status = "DONE"
    /\ jobs[1].remaining = 0

\* the position of a status in the life cycle WAITING, RUNNING, DONE
StatusRank(status) ==
    CASE status = "WAITING" -> 0
      [] status = "RUNNING" -> 1
      [] status = "DONE" -> 2

\* C12: no operation moves a job back to an earlier status of the life
\* cycle WAITING, RUNNING, DONE, and the status and the remaining time of a
\* DONE job never change again.
C12_StatusForward ==
    [][\A i \in 1..Len(jobs) :
          /\ StatusRank(jobs'[i].status) >= StatusRank(jobs[i].status)
          /\ jobs[i].status = "DONE" =>
                 /\ jobs'[i].status = "DONE"
                 /\ jobs'[i].remaining = jobs[i].remaining]_vars

\* start was called on a job that is DONE, after a run_step had completed a
\* job of positive duration
C12_Witness ==
    /\ pc = "api"
    /\ ret.op = "start"
    /\ jobs[1].status = "DONE"
    /\ jobs[1].duration > 0
    /\ jobs[1].remaining = 0

\* C13: start on a job that is RUNNING or DONE changes neither its status
\* nor its start_hour; start_hour is set to the hour of the call that takes
\* the job out of WAITING and no later start or run_step call changes it.
C13_StartIdempotent ==
    [][/\ (ret'.op = "start" /\ jobs[1].status # "WAITING") =>
              /\ jobs'[1].status = jobs[1].status
              /\ jobs'[1].start_hour = jobs[1].start_hour
       /\ (jobs[1].status = "WAITING" /\ jobs'[1].status # "WAITING") =>
              jobs'[1].start_hour = ret'.hour
       /\ jobs[1].status # "WAITING" =>
              jobs'[1].start_hour = jobs[1].start_hour
       /\ jobs'[1].status = "WAITING" => jobs'[1].start_hour = None]_vars

\* start was called on a RUNNING job at a later hour than the one recorded
C13_Witness ==
    /\ pc = "api"
    /\ ret.op = "start"
    /\ jobs[1].status = "RUNNING"
    /\ jobs[1].start_hour # None
    /\ ret.hour > jobs[1].start_hour

\* both runs of an experiment have returned
ExpDone == pc = "returned" /\ scheduler = "SmartScheduler"

\* a non-high job for which some step of the day offers more solar power
\* than the job draws, early enough for the job to finish by its deadline
FlexibleSolarJob(job) ==
    /\ job.priority # "high"
    /\ \E k \in 0..(get_num_steps - 1) :
           /\ SolarTable[k + 1] > job.power_kw
           /\ \/ job.deadline = None
              \/ HourAfter(k) + job.duration * TicksPerMinute
                     <= job.deadline * TicksPerHour

\* a hundredth of a currency unit
CostTolerance == CostScale \div 100

\* C14 as stated: for the same job list and the same day, the Smart run's
\* total_cost() is at most the Baseline run's total_cost() plus a tolerance
\* whenever the list holds a deadline-flexible non-high job with surplus
\* solar power in its feasible window.
C14_SmartNoDearer ==
    (ExpDone /\ \E i \in 1..Len(jobs) : FlexibleSolarJob(jobs[i])) =>
        total_cost(metrics) <= total_cost(base_m) + CostTolerance

\* C15: while and after the baseline scheduler is run on its own deep copy
\* of the job list, every job registered with the smart scheduler is
\* unchanged: WAITING, with its full remaining duration, not started and not
\* penalized.
C15_OtherCopyUntouched ==
    scheduler = "BaselineScheduler" =>
        \A i \in 1..Len(smart_jobs) :
            LET job == Deref(smart_jobs[i], jobs)
            IN  /\ job = Job(job.power_kw, job.duration, job.priority,
                             job.deadline)
                /\ job.status = "WAITING"
                /\ job.remaining = job.duration

\* the baseline run has returned and has completed one of its jobs and
\* penalized another, while the smart scheduler's copies are pristine
C15_Witness ==
    /\ scheduler = "BaselineScheduler"
    /\ pc = "returned"
    /\ Len(smart_jobs) = Len(jobs)
    /\ \E i \in 1..Len(jobs) :
           /\ jobs[i].status = "DONE"
           /\ Deref(smart_jobs[i], jobs).status = "WAITING"
    /\ \E i \in 1..Len(jobs) :
           /\ jobs[i].penalized
           /\ ~Deref(smart_jobs[i], jobs).penalized

C17_NoStepFails ==
    [][(pc = "loop" /\ LoopCondition) =>
          /\ pc' = "loop"
          /\ current_temp >= 0
          /\ locals'.compute_power >= 0
          /\ ~cooling_raises(current_temp, locals'.compute_power)
          /\ running_jobs' = << >> => locals'.compute_power = 0
          /\ \A i \in 1..Len(jobs) :
                 jobs[i].deadline # None =>
                     LET u == urgency_score(jobs[i], current_hour)
                     IN  u.inf \/ u.den > 0]_vars

\* a Smart step at exactly the deadline hour of a job that is still WAITING,
\* in which no job was admitted and the cooling was on
C17_Witness ==
    /\ Stepped
    /\ SmartRun
    /\ running_jobs = << >>
    /\ locals.compute_power = 0
    /\ locals.cooling_power > 0
    /\ \E i \in 1..Len(jobs) :
           /\ jobs[i].status = "WAITING"
           /\ jobs[i].deadline # None
           /\ locals.hour = jobs[i].deadline * TicksPerHour

\* C18 as stated: when run_simulation returns, each of the five series has
\* one entry per step, get_num_steps() entries in all, and time_log is equal
\* to generate_time_steps().
C18_AlignedSeries ==
    pc = "returned" =>
        /\ Len(time_log) = get_num_steps
        /\ Len(grid_log) = get_num_steps
        /\ Len(solar_log) = get_num_steps
        /\ Len(cooling_log) = get_num_steps
        /\ Len(temp_log) = get_num_steps
        /\ time_log = generate_time_steps

\* C19: from one step of a run to the next, none of the running totals of
\* Metrics (grid_energy, solar_energy, cooling_energy, carbon_kg,
\* deadline_violations, deadline_penalty_kwh) decreases.
C19_TotalsMonotone ==
    [][/\ metrics'.grid_energy >= metrics.grid_energy
       /\ metrics'.solar_energy >= metrics.solar_energy
       /\ metrics'.cooling_energy >= metrics.cooling_energy
       /\ metrics'.carbon_kg >= metrics.carbon_kg
       /\ metrics'.deadline_violations >= metrics.deadline_violations
       /\ metrics'.deadline_penalty_kwh >= metrics.deadline_penalty_kwh]_vars

\* a run in which every total has grown, now at a step that draws no
\* compute power while the cooling is on
C19_Witness ==
    /\ Stepped
    /\ pc = "loop"
    /\ metrics.grid_energy > 0
    /\ metrics.solar_energy > 0
    /\ metrics.cooling_energy > 0
    /\ metrics.carbon_kg > 0
    /\ metrics.deadline_violations > 0
    /\ metrics.deadline_penalty_kwh > 0
    /\ locals.compute_power = 0
    /\ locals.cooling_power > 0

PlaceIn(list, i) ==
    IF \E p \in 1..Len(list) : list[p] = i
    THEN CHOOSE p \in 1..Len(list) : list[p] = i
    ELSE 0

\* the jobs of list before place p that are among the admitted ones
AdmittedBefore(list, p, admitted) ==
    SelectSeq(SubSeq(list, 1, p - 1), LAMBDA j : j \in Range(admitted))

\* C21: SmartScheduler.schedule never gates a high-priority job.  Whatever
\* the solar power and the temperature handed to it, a WAITING high-priority
\* job is returned whenever its power fits under the ceiling on top of the
\* returned jobs that are sorted before it.
C21_HighNeverGated ==
    [][(scheduler = "SmartScheduler" /\ ret'.op = "schedule") =>
          LET sorted == _prioritize_jobs(jobs, waiting_jobs(jobs), ret'.hour,
                                         locals'.sched_solar)
          IN  \A i \in 1..Len(jobs) :
                  (/\ jobs[i].status = "WAITING"
                   /\ jobs[i].priority = "high"
                   /\ SumPower(jobs, AdmittedBefore(sorted, PlaceIn(sorted, i),
                                                    running_jobs'))
                          + jobs[i].power_kw <= MAX_DATA_HUB_POWER)
                      => i \in Range(running_jobs')]_vars

\* a call with no solar power and a hot hub that returned a high-priority
\* job taking more than the ceiling less the background load, and held
\* back a medium-priority and a low-priority job
C21_Witness ==
    /\ scheduler = "SmartScheduler"
    /\ ret.op = "schedule"
    /\ locals.sched_solar < MIN_SOLAR_FOR_MEDIUM
    /\ locals.sched_temp > THERMAL_THRESHOLD
    /\ \E k \in 1..Len(running_jobs) :
           /\ jobs[running_jobs[k]].priority = "high"
           /\ jobs[running_jobs[k]].power_kw
                  > MAX_DATA_HUB_POWER - BASELINE_BACKGROUND_LOAD
    /\ \E i \in 1..Len(jobs) :
           jobs[i].status = "WAITING" /\ jobs[i].priority # "high"

\* a label spells a lower-case word, whatever the case of its letters
SpellsWord(label, word) ==
    /\ Len(label) = Len(word)
    /\ \A k \in 1..Len(word) :
           label[k] = word[k] \/ label[k] = UpperChar(word[k])

\* C22: the constructor of Job raises exactly for the labels that spell
\* none of high, medium and low in any mix of cases; a label that spells
\* one of them is accepted and the priority is stored in lower case.
C22_PriorityLabels ==
    ret.op = "Job" =>
        /\ ret.raised <=>
               ~\E p \in PRIORITIES : SpellsWord(ret.priority, Chars[p])
        /\ ~ret.raised =>
               /\ Len(jobs) = 1
               /\ jobs[1].priority \in PRIORITIES
               /\ SpellsWord(ret.priority, Chars[jobs[1].priority])
               /\ jobs[1].status = "WAITING"

\* a label in mixed case was accepted and stored in lower case
C22_Witness ==
    /\ ret.op = "Job"
    /\ ~ret.raised
    /\ ret.priority # Chars.medium
    /\ ret.priority[1] = "M"
    /\ ret.priority[2] = "e"
    /\ jobs[1].priority = "medium"

\* C23: cooling_power_kw raises exactly when the hub temperature or the
\* compute load is negative; for valid arguments it returns 0 whenever the
\* hub temperature is at or below TEMP_THRESHOLD and a non-negative value
\* otherwise.
C23_CoolingContract ==
    ret.op = "cooling_power_kw" =>
        /\ ret.raised <=> (ret.hub_temp < 0 \/ ret.compute_load_kw < 0)
        /\ (~ret.raised /\ ret.hub_temp <= TEMP_THRESHOLD) => ret.value = 0
        /\ ~ret.raised => ret.value >= 0

\* a call with a hub temperature above the threshold that was rejected for
\* its negative load
C23_Witness ==
    /\ ret.op = "cooling_power_kw"
    /\ ret.raised
    /\ ret.hub_temp > TEMP_THRESHOLD
    /\ ret.compute_load_kw < 0

\* the jobs of a list that neither gate of the smart policy holds back
RECURSIVE Ungated(_, _, _, _)
Ungated(js, list, solar, temp) ==
    IF list = << >> THEN << >>
    ELSE (IF ThermalGate(js[Head(list)], temp)
              \/ SolarGate(js[Head(list)], solar)
          THEN << >>
          ELSE << Head(list) >>)
             \o Ungated(js, Tail(list), solar, temp)

\* C24 as stated: SmartScheduler.schedule admits jobs from the sorted, gated
\* list as Baseline does from its list: the returned list is the longest
\* prefix of the sorted, gated list that fits under the ceiling, so no job
\* sorted after the first misfit is returned.
C24_StopsAtFirstMisfit ==
    [][(scheduler = "SmartScheduler" /\ ret'.op = "schedule") =>
          LET gated == Ungated(jobs,
                               _prioritize_jobs(jobs, waiting_jobs(jobs),
                                                ret'.hour,
                                                locals'.sched_solar),
                               locals'.sched_solar, locals'.sched_temp)
          IN  \E n \in 0..Len(gated) :
                  /\ running_jobs' = SubSeq(gated, 1, n)
                  /\ n < Len(gated) =>
                         SumPower(jobs, SubSeq(gated, 1, n + 1))
                             > MAX_DATA_HUB_POWER]_vars

\* C25: at the end of every step of a run, a registered job with a deadline
\* that is not DONE (so also a job that was never admitted) has been recorded
\* as violating its deadline exactly once if the hour of the step is greater
\* than the deadline, and not at all otherwise; the violation is recorded in
\* the first step whose hour is greater than the deadline.
C25_CheckedEveryStep ==
    [][(pc = "loop" /\ pc' = "loop") =>
          \A i \in 1..Len(jobs) :
              (jobs[i].deadline # None /\ jobs'[i].status # "DONE") =>
                  /\ missed'[i] =
                         (IF PastDeadline(jobs[i], current_hour)
                          THEN 1 ELSE 0)
                  /\ jobs'[i].penalized = PastDeadline(jobs[i], current_hour)
                  /\ missed'[i] # missed[i] <=>
                         /\ PastDeadline(jobs[i], current_hour)
                         /\ \/ time_log = << >>
                            \/ ~PastDeadline(jobs[i],
                                             time_log[Len(time_log)])]_vars

\* a job that was never admitted has its one violation on record, and the
\* run has gone on for an hour since
C25_Witness ==
    /\ pc = "loop"
    /\ \E i \in 1..Len(jobs) :
           /\ jobs[i].status = "WAITING"
           /\ jobs[i].deadline # None
           /\ missed[i] = 1
           /\ current_hour > (jobs[i].deadline + 1) * TicksPerHour

\* C26: at the end of every step of a run, metrics.deadline_violations is
\* the number of registered jobs whose penalized flag is set, and
\* metrics.deadline_penalty_kwh is deadline_violations times
\* DEADLINE_PENALTY_KWH.
C26_ViolationsMatchFlags ==
    pc \in {"loop", "returned"} =>
        /\ metrics.deadline_violations = penalized_count(jobs)
        /\ metrics.deadline_penalty_kwh =
               metrics.deadline_violations * DEADLINE_PENALTY_KWH

\* two jobs have been penalized, in different steps
C26_Witness ==
    /\ pc = "loop"
    /\ metrics.deadline_violations >= 2
    /\ \E i, j \in 1..Len(jobs) :
           /\ jobs[i].penalized /\ jobs[j].penalized
           /\ jobs[i].deadline < jobs[j].deadline

\* C27: after any sequence of add_energy and add_cooling calls, carbon_kg is
\* (grid_energy + cooling_energy) times GRID_CARBON_INTENSITY: the solar
\* energy adds no carbon, the cooling energy is charged as grid energy.
C27_CarbonOfGridAndCooling ==
    metrics.carbon_kg =
        (metrics.grid_energy + metrics.cooling_energy) * GRID_CARBON_INTENSITY

\* solar, grid and cooling energy are all on record after a call
C27_Witness ==
    /\ ret.op \in {"add_energy", "add_cooling"}
    /\ metrics.solar_energy > 0
    /\ metrics.grid_energy > 0
    /\ metrics.cooling_energy > 0

\* C28 as stated: urgency_score(hour) is 0 for a job without a deadline,
\* +infinity for a job past its deadline (hour > deadline), and otherwise the
\* number (remaining / 60) / (deadline - hour).
C28_Original ==
    ret.op = "urgency_score" =>
        LET job == jobs[1]
            left == job.deadline * TicksPerHour - ret.hour
        IN  IF job.deadline = None
            THEN ~ret.value.inf /\ ret.value.num = 0
            ELSE IF PastDeadline(job, ret.hour)
            THEN ret.value.inf
            ELSE /\ ~ret.value.inf
                 /\ ret.value.num * left
                        = job.remaining * TicksPerMinute * ret.value.den

\* C28, amended: urgency_score(hour) is 0 for a job without a deadline,
\* +infinity for a job at or past its deadline (deadline - hour <= 0), and
\* otherwise (remaining / 60) / (deadline - hour).
C28_UrgencyScore ==
    ret.op = "urgency_score" =>
        LET job == jobs[1]
            left == job.deadline * TicksPerHour - ret.hour
        IN  IF job.deadline = None
            THEN ~ret.value.inf /\ ret.value.num = 0
            ELSE IF left <= 0
            THEN ret.value.inf
            ELSE /\ ~ret.value.inf
                 /\ ret.value.den > 0
                 /\ ret.value.num * left
                        = job.remaining * TicksPerMinute * ret.value.den

\* the score was asked for at the very hour of the deadline of a job that
\* has work left
C28_Witness ==
    /\ ret.op = "urgency_score"
    /\ jobs[1].deadline # None
    /\ ret.hour = jobs[1].deadline * TicksPerHour
    /\ jobs[1].remaining > 0
    /\ ret.value.inf

\* C29: solar_percentage() is 0 when solar_energy + grid_energy is 0 and
\* solar_energy / (solar_energy + grid_energy) * 100 otherwise; during and
\* after any run it lies between 0 and 100.
C29_SolarPercentage ==
    LET value == solar_percentage(metrics)
        compute_total == metrics.solar_energy + metrics.grid_energy
    IN  /\ compute_total = 0 => value.num = 0
        /\ compute_total # 0 =>
               /\ value.num = metrics.solar_energy * 100
               /\ value.den = compute_total
        /\ value.den > 0
        /\ 0 <= value.num
        /\ value.num <= 100 * value.den

\* a run has returned with a part of the compute energy from solar, a part
\* from the grid and some cooling energy
C29_Witness ==
    /\ pc = "returned"
    /\ metrics.solar_energy > 0
    /\ metrics.grid_energy > 0
    /\ metrics.cooling_energy > 0

\* what one iteration of a run does to the jobs, written in terms of the
\* jobs, the admitted list and the hour alone
BlindStep(js, admitted, hour) ==
    [i \in 1..Len(js) |->
        LET job == RunAdmitted(js[i], i \in Range(admitted), hour)
        IN  IF deadline_missed(job, hour)
            THEN [job EXCEPT !.penalized = TRUE]
            ELSE job]

\* C30: a baseline run (BaselineScheduler, use_smart_features = False) is
\* environmentally blind.  In every step the policy is handed 0 for the
\* solar power and the temperature; whatever solar power and temperature it
\* were handed instead, it would return the list it returned; and the jobs
\* after the step are determined by the jobs before it, that list and the
\* hour.  So the admissions of every step and the final state of every job
\* are the same under any two solar and temperature profiles.
C30_BaselineBlind ==
    [][(/\ scheduler = "BaselineScheduler" /\ ~use_smart_features
        /\ pc = "loop" /\ pc' = "loop") =>
          /\ locals'.sched_solar = 0
          /\ locals'.sched_temp = 0
          /\ \A solar \in SchedSolars \cup {0, solar_power(current_hour)},
                temp \in SchedTemps \cup {0, current_temp, MAX_HUB_TEMP} :
                 /\ Schedule(scheduler, jobs, solar, temp, current_hour)
                        = running_jobs'
                 /\ BlindStep(jobs,
                              Schedule(scheduler, jobs, solar, temp,
                                       current_hour),
                              current_hour) = jobs']_vars

\* a baseline run has admitted a medium-priority job at an hour without
\* solar power and a low-priority job, and later the hub got too hot
C30_Witness ==
    /\ scheduler = "BaselineScheduler" /\ ~use_smart_features
    /\ pc = "loop"
    /\ current_temp > THERMAL_THRESHOLD
    /\ \E i, j \in 1..Len(jobs) :
           /\ jobs[i].priority = "medium" /\ jobs[i].status # "WAITING"
           /\ solar_power(jobs[i].start_hour) < MIN_SOLAR_FOR_MEDIUM
           /\ jobs[j].priority = "low" /\ jobs[j].status # "WAITING"

C32_RunningContinued ==
    [][(pc = "loop" /\ pc' = "loop") =>
          /\ locals'.compute_power = SumPower(jobs, running_jobs')
          /\ \A i \in 1..Len(jobs) :
                 /\ jobs[i].status = "RUNNING" => i \in Range(running_jobs')
                 /\ jobs[i].status = "DONE" => i \notin Range(running_jobs')]_vars

\* C33: a schedule call of either policy changes nothing in any job except
\* that the jobs it returns go from WAITING to RUNNING and get the hour of
\* the call as start_hour: power_kw, duration, remaining, deadline, priority
\* and penalized of every job are unchanged, and a job that is not returned
\* keeps its status and start_hour too.
C33_ScheduleFrame ==
    [][ret'.op = "schedule" =>
          /\ Len(jobs') = Len(jobs)
          /\ \A i \in 1..Len(jobs) :
                 /\ jobs'[i].power_kw = jobs[i].power_kw
                 /\ jobs'[i].duration = jobs[i].duration
                 /\ jobs'[i].remaining = jobs[i].remaining
                 /\ jobs'[i].deadline = jobs[i].deadline
                 /\ jobs'[i].priority = jobs[i].priority
                 /\ jobs'[i].penalized = jobs[i].penalized
                 /\ IF i \in Range(running_jobs')
                    THEN /\ jobs[i].status = "WAITING"
                         /\ jobs'[i].status = "RUNNING"
                         /\ jobs'[i].start_hour = ret'.hour
                    ELSE /\ jobs'[i].status = jobs[i].status
                         /\ jobs'[i].start_hour = jobs[i].start_hour]_vars

\* a schedule call that returned one job and not another WAITING one, on a
\* list that also holds a job admitted by an earlier call
C33_Witness ==
    /\ ret.op = "schedule"
    /\ \E i, j, k \in 1..Len(jobs) :
           /\ i \in Range(running_jobs)
           /\ jobs[i].status = "RUNNING"
           /\ jobs[j].status = "WAITING"
           /\ k \notin Range(running_jobs)
           /\ jobs[k].status # "WAITING"

\* the last call was cooling_power_kw with valid arguments above the threshold
CoolingAboveThreshold ==
    /\ ret.op = "cooling_power_kw"
    /\ ~ret.raised
    /\ ret.hub_temp > TEMP_THRESHOLD

\* C34 as stated: above the threshold the cooling power is proportional to
\* the temperature excess and to the compute load: it is 0 when the load is
\* 0, and twice the load gives twice the power (to the watt).
C34_Original ==
    CoolingAboveThreshold =>
        /\ ret.compute_load_kw = 0 => ret.value = 0
        /\ cooling_power_kw(ret.hub_temp, 2 * ret.compute_load_kw)
               \in (2 * ret.value - 1)..(2 * ret.value + 1)

\* C34, amended: above the threshold the cooling power is the sum of
\* COOLING_FACTOR times the temperature excess and LOAD_COOLING_FACTOR times
\* the compute load, divided by COOLING_COP (here rounded down to the watt);
\* it is not 0 when the load is 0.
C34_CoolingSum ==
    CoolingAboveThreshold =>
        LET cooling_requirement ==
                COOLING_FACTOR * (ret.hub_temp - TEMP_THRESHOLD)
                    + LOAD_COOLING_FACTOR * ret.compute_load_kw
        IN  /\ ret.value * CoefScale * COOLING_COP <= cooling_requirement
            /\ cooling_requirement < (ret.value + 1) * CoefScale * COOLING_COP

\* cooling power is drawn above the threshold although nothing is computing
C34_Witness ==
    /\ CoolingAboveThreshold
    /\ ret.compute_load_kw = 0
    /\ ret.value > 0

\* the summed power_kw of the jobs js[i], js[i + 1], ... that are RUNNING
RECURSIVE RunningPower(_, _)
RunningPower(js, i) ==
    IF i > Len(js) THEN 0
    ELSE (IF js[i].status = "RUNNING" THEN js[i].power_kw ELSE 0)
             + RunningPower(js, i + 1)

\* C35 as stated: at the end of every step of every run, the summed power_kw
\* of the registered jobs that are RUNNING is within MAX_DATA_HUB_POWER.
C35_RunningWithinCeiling ==
    Stepped => RunningPower(jobs, 1) <= MAX_DATA_HUB_POWER

\* the sort key without its solar_bonus term:
\* (priority_level, -urgency, power_kw)
PlainKeyLess(a, b, hour) ==
    LET ua == urgency_score(a, hour)
        ub == urgency_score(b, hour)
    IN  IF priority_level(a) # priority_level(b)
        THEN priority_level(a) < priority_level(b)
        ELSE IF ScoreGreater(ua, ub) \/ ScoreGreater(ub, ua)
        THEN ScoreGreater(ua, ub)
        ELSE a.power_kw < b.power_kw

\* the stable sort of a list of indices by the key without the bonus
RECURSIVE PlainInsert(_, _, _, _)
PlainInsert(js, sorted, i, hour) ==
    IF sorted = << >>
    THEN << i >>
    ELSE IF PlainKeyLess(js[i], js[Head(sorted)], hour)
         THEN << i >> \o sorted
         ELSE << Head(sorted) >>
                 \o PlainInsert(js, Tail(sorted), i, hour)

RECURSIVE PlainSort(_, _, _)
PlainSort(js, idx, hour) ==
    IF idx = << >>
    THEN << >>
    ELSE PlainInsert(js, PlainSort(js, SubSeq(idx, 1, Len(idx) - 1),
                                   hour),
                     idx[Len(idx)], hour)

\* C36: the solar bonus for medium-priority jobs never changes the result
\* of _prioritize_jobs.  For the job list of every schedule call of the
\* smart policy, for its waiting jobs and for all its jobs, at the hour of
\* the call and for every solar value, the order by the key with the bonus
\* is the order by the key without it.
C36_BonusChangesNothing ==
    [][(scheduler = "SmartScheduler" /\ ret'.op = "schedule") =>
          \A solar \in SchedSolars \cup {GOOD_SOLAR, GOOD_SOLAR + 1} :
              /\ _prioritize_jobs(jobs, waiting_jobs(jobs), ret'.hour, solar)
                     = PlainSort(jobs, waiting_jobs(jobs), ret'.hour)
              /\ _prioritize_jobs(jobs, [i \in 1..Len(jobs) |-> i],
                                  ret'.hour, solar)
                     = PlainSort(jobs, [i \in 1..Len(jobs) |-> i],
                                 ret'.hour)]_vars

\* a call in good solar that admitted two medium-priority jobs, both with
\* the bonus, the larger one registered first and returned second
C36_Witness ==
    /\ scheduler = "SmartScheduler"
    /\ ret.op = "schedule"
    /\ locals.sched_solar > GOOD_SOLAR
    /\ Len(running_jobs) = 2
    /\ running_jobs[1] > running_jobs[2]
    /\ \A k \in 1..2 :
           solar_bonus(jobs[running_jobs[k]], locals.sched_solar) = -1
    /\ jobs[running_jobs[1]].power_kw < jobs[running_jobs[2]].power_kw

\* C37 as stated: in a Baseline run every registered job whose own power_kw
\* fits within MAX_DATA_HUB_POWER less BASELINE_BACKGROUND_LOAD has been
\* admitted (has left WAITING) by the end of the day, whatever the other
\* registered jobs are.
C37_FittingJobsAdmitted ==
    (BaselineRun /\ pc = "returned") =>
        \A i \in 1..Len(jobs) :
            jobs[i].power_kw <= MAX_DATA_HUB_POWER - BASELINE_BACKGROUND_LOAD
                => jobs[i].status # "WAITING"

\* validate_simulation_results: the 0.1 kWh allowed between the metrics and
\* the logs, in energy units
ConsistencyTolerance == EnergyPerKWh \div 10

\* validate_simulation_results: the condition under which the warning
\* "Metrics grid energy doesn't match logs" is reported,
\* abs(metrics.grid_energy - total_grid_energy - metrics.cooling_energy) > 0.1
\* with total_grid_energy = sum(grid_log) * (TIME_STEP_MINUTES / 60.0)
grid_mismatch_warning(m, log) ==
    LET total_grid_energy == SumSeq(log) * TIME_STEP_MINUTES
        difference == m.grid_energy - total_grid_energy - m.cooling_energy
    IN  Max(difference, -difference) > ConsistencyTolerance

\* C38 as stated: for the outputs of any run_simulation call,
\* validate_simulation_results does not report that the metrics grid energy
\* does not match the logs.
C38_NoMismatchWarning ==
    pc = "returned" => ~grid_mismatch_warning(metrics, grid_log)
====
